---------------------------- MODULE Spec2Model ----------------------------
(***************************************************************************)
(* A model of src/frontend/js/app.js: the solar geometry (getSubsolarPoint,*)
(* buildNightPolygon, buildTerminatorLine), the map layer management       *)
(* (addLayers, updateLayers), the text readouts (updateClock,              *)
(* updateSubsolarInfo) and the load handler that starts the two timers.    *)
(*                                                                         *)
(* Numbers.  The code computes in IEEE doubles; the model computes in      *)
(* fixed point.  Every angle (radians or degrees in the code) is an        *)
(* integer number of TICKS, one tick being 1/240 of a degree: that is the  *)
(* angle the subsolar meridian moves in one second of time, so the         *)
(* subsolar longitude of line 37 is exact.  Every sine and cosine is an    *)
(* integer scaled by Scale.  NaN is a reserved integer no angle can take.   *)
(***************************************************************************)
EXTENDS Integers, Sequences, FiniteSets, TLC

\* ---------------------------------------------------------------------------
\* Fixed-point numerics (Math.* of the code)
\* ---------------------------------------------------------------------------

\* Ticks per degree: (seconds per hour) / (degrees per hour), line 32-37.
TicksPerDeg == 3600 \div 15

\* Value of 1.0 for sines and cosines.
Scale == 10 ^ 4

Deg(d) == d * TicksPerDeg

\* NaN: a reserved value outside the range of every angle of the model.
NaN == -(2 ^ 30)

Abs(n) == IF n < 0 THEN -n ELSE n

\* floor(a / b) for b > 0 is \div; Trunc is the quotient rounded toward zero.
TruncDiv(a, b) == IF a >= 0 THEN a \div b ELSE -((-a) \div b)

\* JavaScript's % : the remainder has the sign of the dividend.
JsRem(a, b) == a - b * TruncDiv(a, b)

\* round(Scale * sin(k degrees)), k = 0 .. 90, at index k + 1.
SinTable ==
  << 0, 175, 349, 523, 698, 872, 1045, 1219, 1392, 1564,
     1736, 1908, 2079, 2250, 2419, 2588, 2756, 2924, 3090, 3256,
     3420, 3584, 3746, 3907, 4067, 4226, 4384, 4540, 4695, 4848,
     5000, 5150, 5299, 5446, 5592, 5736, 5878, 6018, 6157, 6293,
     6428, 6561, 6691, 6820, 6947, 7071, 7193, 7314, 7431, 7547,
     7660, 7771, 7880, 7986, 8090, 8192, 8290, 8387, 8480, 8572,
     8660, 8746, 8829, 8910, 8988, 9063, 9135, 9205, 9272, 9336,
     9397, 9455, 9511, 9563, 9613, 9659, 9703, 9744, 9781, 9816,
     9848, 9877, 9903, 9925, 9945, 9962, 9976, 9986, 9994, 9998,
     10000 >>

\* sin of an angle in [0, 90 degrees], linear between the table's entries.
SinQ(t) ==
  LET k == t \div TicksPerDeg
      r == t % TicksPerDeg
  IN  IF r = 0 THEN SinTable[k + 1]
      ELSE SinTable[k + 1]
           + ((SinTable[k + 2] - SinTable[k + 1]) * r + TicksPerDeg \div 2)
             \div TicksPerDeg

\* Math.sin, for any angle in ticks.
Sin(t) ==
  LET a == t % Deg(360)
  IN  IF a <= Deg(90) THEN SinQ(a)
      ELSE IF a <= Deg(180) THEN SinQ(Deg(180) - a)
      ELSE IF a <= Deg(270) THEN -SinQ(a - Deg(180))
      ELSE -SinQ(Deg(360) - a)

\* Math.cos
Cos(t) == Sin(t + Deg(90))

\* The product of two scaled numbers, rounded to nearest.
Mul(u, v) ==
  LET m == u * v
  IN  IF m >= 0 THEN (m + Scale \div 2) \div Scale
      ELSE -((-m + Scale \div 2) \div Scale)

\* The inverse functions are binary searches, most significant bit first, for
\* the largest value below 2^16 that satisfies a condition which holds at 0
\* and, once false, stays false.
TopBit == 2 ^ 15

\* One step of the square root: keep bit b when (lo + b)^2 <= n.
SqrtBit(n, lo, b) ==
  IF lo + b <= 2 * Scale /\ (lo + b) * (lo + b) <= n THEN lo + b ELSE lo

RECURSIVE SqrtSteps(_, _, _)
SqrtSteps(n, lo, b) ==
  IF b = 0 THEN lo
  ELSE SqrtSteps(n, SqrtBit(n, lo, b), b \div 2)

\* Math.sqrt(n) for n the sum of two squares of scaled numbers: the largest
\* r with r * r <= n.
Sqrt(n) == SqrtSteps(n, 0, TopBit)

\* Math.sqrt(p*p + q*q), line 77.
Hypot(p, q) == Sqrt(p * p + q * q)

\* One step of the arcsine: keep bit b when sin(lo + b - 90 degrees) <= s / R.
AsinBit(s, R, lo, b) ==
  IF lo + b <= Deg(180) /\ Sin(lo + b - Deg(90)) * R <= s * Scale
  THEN lo + b ELSE lo

RECURSIVE AsinSteps(_, _, _, _)
AsinSteps(s, R, lo, b) ==
  IF b = 0 THEN lo
  ELSE AsinSteps(s, R, AsinBit(s, R, lo, b), b \div 2)

\* The largest angle, counted from -90 degrees, whose sine is at most s / R.
AsinSearch(s, R) == AsinSteps(s, R, 0, TopBit)

\* Math.asin(s / R): NaN for 0/0 and for a quotient outside [-1, 1]
\* (s / 0 is an infinity), else the angle in [-90, 90] degrees.
AsinQuot(s, R) ==
  IF R = 0 \/ Abs(s) > Abs(R) THEN NaN ELSE AsinSearch(s, R) - Deg(90)

\* One step of the arctangent: keep bit b when the angle lo + b is not past
\* the direction of the point (p, q), q > 0.
AtanBit(q, p, lo, b) ==
  IF lo + b <= Deg(180) /\ q * Cos(lo + b) - p * Sin(lo + b) >= 0
  THEN lo + b ELSE lo

RECURSIVE AtanSteps(_, _, _, _)
AtanSteps(q, p, lo, b) ==
  IF b = 0 THEN lo
  ELSE AtanSteps(q, p, AtanBit(q, p, lo, b), b \div 2)

\* Math.atan2(q, p) for q > 0: an angle in [0, 180] degrees.
AtanUpper(q, p) == AtanSteps(q, p, 0, TopBit)

\* Math.atan2(q, p): the angle in (-180, 180] degrees of the point (p, q).
Atan2(q, p) ==
  IF q = 0 THEN (IF p >= 0 THEN 0 ELSE Deg(180))
  ELSE IF q > 0 THEN AtanUpper(q, p)
  ELSE -AtanUpper(-q, p)

\* ---------------------------------------------------------------------------
\* Program constants
\* ---------------------------------------------------------------------------

\* The value null (buildNightPolygon's "no boundary") and undefined
\* (map.getSource of an id that was never added).
Null == [type |-> "null"]

\* BANDS, lines 111-116: the band ids and their altitude thresholds (degrees).
BandIds == <<"night-0", "night-6", "night-12", "night-18">>

BandAlt == [id \in {"night-0", "night-6", "night-12", "night-18"} |->
              CASE id = "night-0"  -> 0
                [] id = "night-6"  -> -6
                [] id = "night-12" -> -12
                [] id = "night-18" -> -18]

BANDS == [k \in 1..Len(BandIds) |-> [id |-> BandIds[k], alt |-> BandAlt[BandIds[k]]]]

\* MIN_DECL = 2 * RAD, line 65.
MIN_DECL == Deg(2)

\* The latitude clamp 89.9 of line 83, in ticks.
LatClamp == Deg(90) - TicksPerDeg \div 10

\* ---------------------------------------------------------------------------
\* The ephemeris collaborator (SunCalc) and the Date
\* ---------------------------------------------------------------------------
\* A date is [utc, noon, sunDecl]: its UTC time of day in seconds, the time of
\* day in seconds of that day's solar noon at (0, 0), and the sun's true
\* declination at that instant, in ticks.

\* SunCalc.getTimes(date, 0, 0).solarNoon as fractional hours, here seconds.
noonH(date) == date.noon

\* date.getUTCHours() + getUTCMinutes()/60 + getUTCSeconds()/3600, here seconds.
utcH(date) == date.utc

\* SunCalc.getPosition(date, lat, ssLon).altitude on the subsolar meridian,
\* where the hour angle is 0: altitude = 90 degrees - |lat - declination|.
SunCalcAltitude(date, lat) == Deg(90) - Abs(lat - date.sunDecl)

\* ---------------------------------------------------------------------------
\* getSubsolarPoint, lines 30-49
\* ---------------------------------------------------------------------------

\* Line 37: (noonH - utcH) * 15 degrees; one second of time is one tick.
RawLon(date) == noonH(date) - utcH(date)

\* The normalisation with one remainder only: (ssLon + 180) % 360 - 180.
NormalizeLon_singleRem(ssLon) == JsRem(ssLon + Deg(180), Deg(360)) - Deg(180)

\* Line 38: ((ssLon + 180) % 360 + 360) % 360 - 180.
NormalizeLon(ssLon) ==
  JsRem(JsRem(ssLon + Deg(180), Deg(360)) + Deg(360), Deg(360)) - Deg(180)

getSubsolarPoint(date) ==
  LET ssLon == NormalizeLon(RawLon(date))
      posEq == SunCalcAltitude(date, 0)
      posN  == SunCalcAltitude(date, Deg(1))
      posS  == SunCalcAltitude(date, -Deg(1))
      sign  == IF posN >= posS THEN 1 ELSE -1
      decl  == sign * (Deg(90) - posEq)
  IN  [lon |-> ssLon, lat |-> decl, decl |-> decl]

\* ---------------------------------------------------------------------------
\* buildNightPolygon, lines 62-103
\* ---------------------------------------------------------------------------

\* Lines 66-68: the equinox guard.
\* buildNightPolygon without the guard of lines 66-68.
ClampDecl_noGuard(declRaw) == declRaw

ClampDecl(declRaw) ==
  IF Abs(declRaw) < MIN_DECL
  THEN (IF declRaw >= 0 THEN MIN_DECL ELSE -MIN_DECL)
  ELSE declRaw

\* Line 70: Math.sin(altThresholdDeg * RAD).
SinA0(altThresholdDeg) == Sin(Deg(altThresholdDeg))

\* Lines 74-77: the amplitude R at longitude lon (degrees).
Amplitude(ssLon, decl, lon) ==
  LET H == Deg(lon) - ssLon
      p == Sin(decl)
      q == Mul(Cos(decl), Cos(H))
  IN  Hypot(p, q)

\* Line 79 with <= for <.
NoSolution_orEqual(R, sinA0) == R <= Abs(sinA0)

\* Line 79: the longitude has no solution and is skipped.
NoSolution(R, sinA0) == R < Abs(sinA0)

\* Line 82 without the clamp of line 83.
ClampLat_none(lat) == lat

\* Line 83: Math.max(-89.9, Math.min(89.9, lat)); NaN stays NaN.
ClampLat(lat) ==
  IF lat = NaN THEN NaN
  ELSE IF lat > LatClamp THEN LatClamp
  ELSE IF lat < -LatClamp THEN -LatClamp
  ELSE lat

\* Lines 81-82: (Math.asin(sinA0 / R) - psi) * DEG.
SolveLat(sinA0, R, q, p) ==
  LET psi == Atan2(q, p)
      as  == AsinQuot(sinA0, R)
  IN  IF as = NaN THEN NaN ELSE as - psi

\* Lines 74-84: one pass of the loop body: the point pushed at longitude
\* lon, or Skip when line 79 continues.
Skip == << >>

LoopBody(ssLon, decl, sinA0, lon) ==
  LET H == Deg(lon) - ssLon
      p == Sin(decl)
      q == Mul(Cos(decl), Cos(H))
      R == Hypot(p, q)
  IN  IF NoSolution(R, sinA0) THEN Skip
      ELSE <<Deg(lon), ClampLat(SolveLat(sinA0, R, q, p))>>

IsPoint(pt) == pt # Skip

\* Lines 73-85: the loop for lon = -180 .. 180, in order; the result is
\* coords, the points pushed.
BoundaryLoop(ssLon, decl, sinA0) ==
  SelectSeq([k \in 1..361 |-> LoopBody(ssLon, decl, sinA0, k - 181)], IsPoint)

\* The pole chosen by the sign of the declination alone.
PoleLat_bySign(decl, sinA0) == IF Sin(decl) > 0 THEN -Deg(90) ELSE Deg(90)

\* Lines 91-92: the pole that closes the ring.
PoleLat(decl, sinA0) ==
  LET southInNight == Sin(decl) > -sinA0
  IN  IF southInNight THEN -Deg(90) ELSE Deg(90)

\* Lines 94-96: the two pole points and the repeat of the first point.
CloseRing(coords, pole) ==
  coords \o << <<Deg(180), pole>>, <<-Deg(180), pole>>, coords[1] >>

\* Lines 87-102: null for no points, else the closed ring as a Polygon.
PolygonOf(coords, pole) ==
  IF Len(coords) = 0 THEN Null
  ELSE [type |-> "Polygon", coordinates |-> CloseRing(coords, pole)]

\* Lines 65-102, for the subsolar point ss of line 63.
PolygonFor(ss, sinA0) ==
  PolygonOf(BoundaryLoop(ss.lon, ClampDecl(ss.decl), sinA0),
            PoleLat(ClampDecl(ss.decl), sinA0))

buildNightPolygon(date, altThresholdDeg) ==
  PolygonFor(getSubsolarPoint(date), SinA0(altThresholdDeg))

\* ---------------------------------------------------------------------------
\* buildTerminatorLine, lines 200-214
\* ---------------------------------------------------------------------------
\* Line 206 with slice(0, length - 2).
TerminatorOf_dropTwo(poly) ==
  IF poly = Null THEN [type |-> "LineString", coordinates |-> << >>]
  ELSE [type |-> "LineString",
        coordinates |-> SubSeq(poly.coordinates, 1, Len(poly.coordinates) - 2)]

\* Lines 202-213, for the polygon of line 201.
TerminatorOf(poly) ==
  IF poly = Null THEN [type |-> "LineString", coordinates |-> << >>]
  ELSE [type |-> "LineString",
        coordinates |-> SubSeq(poly.coordinates, 1, Len(poly.coordinates) - 3)]

buildTerminatorLine(date) == TerminatorOf(buildNightPolygon(date, 0))

\* ---------------------------------------------------------------------------
\* Text: a string is a sequence of tokens, a number a sequence of characters
\* ---------------------------------------------------------------------------
Digit == <<"0", "1", "2", "3", "4", "5", "6", "7", "8", "9">>

DigitChar(d) == Digit[d + 1]

\* The decimal digits of n, 0 <= n <= 999, without leading zeros.
Digits(n) ==
  IF n < 10 THEN <<DigitChar(n)>>
  ELSE IF n < 100 THEN <<DigitChar(n \div 10), DigitChar(n % 10)>>
  ELSE <<DigitChar(n \div 100), DigitChar((n \div 10) % 10), DigitChar(n % 10)>>

\* The value of a sequence of at most three digit characters.
DigitVal(c) == CHOOSE d \in 0..9 : DigitChar(d) = c

DigitsVal(cs) ==
  IF Len(cs) = 1 THEN DigitVal(cs[1])
  ELSE IF Len(cs) = 2 THEN 10 * DigitVal(cs[1]) + DigitVal(cs[2])
  ELSE 100 * DigitVal(cs[1]) + 10 * DigitVal(cs[2]) + DigitVal(cs[3])

\* Number.prototype.toFixed(1) of an angle v (ticks, as degrees): the sign,
\* the integer digits, a point and one digit; a tie rounds the magnitude up.
ToFixed1(v) ==
  LET n == (Abs(v) * 10 + TicksPerDeg \div 2) \div TicksPerDeg
  IN  (IF v < 0 THEN <<"-">> ELSE << >>)
      \o Digits(n \div 10) \o <<".", DigitChar(n % 10)>>

\* ToNumber of a toFixed(1) string, in tenths (the sign of -0.0 is lost in
\* Math.abs anyway).
ToNumberTenths(str) ==
  LET neg  == str[1] = "-"
      body == IF neg THEN Tail(str) ELSE str
      int  == DigitsVal(SubSeq(body, 1, Len(body) - 2))
      frac == DigitVal(body[Len(body)])
  IN  (IF neg THEN -1 ELSE 1) * (10 * int + frac)

\* Number::toString of a number given in tenths, as a template literal
\* prints it: no point and no fraction digit when the fraction is zero.
NumberToString(tenths) ==
  IF tenths % 10 = 0 THEN Digits(tenths \div 10)
  ELSE Digits(tenths \div 10) \o <<".", DigitChar(tenths % 10)>>

\* `${Math.abs(str)}`, lines 231-232: the string is converted to a number,
\* its absolute value taken and the number printed.
MathAbsText(str) == NumberToString(Abs(ToNumberTenths(str)))

\* updateSubsolarInfo, lines 226-233: the text content of #subsolar-info.
SubsolarInfoText(ss) ==
  LET lat == ToFixed1(ss.lat)
      lon == ToFixed1(ss.lon)
      ns  == IF ss.lat >= 0 THEN "N" ELSE "S"
      ew  == IF ss.lon >= 0 THEN "E" ELSE "W"
  IN  <<"subsolar  ", MathAbsText(lat), "deg", ns, "  ",
        MathAbsText(lon), "deg", ew>>

\* String(n).padStart(2, '0'), lines 220-222.
PadStart2(n) == IF n < 10 THEN <<"0">> \o Digits(n) ELSE Digits(n)

\* updateClock, lines 218-224: the text content of #utc-time.
ClockText(date) ==
  <<PadStart2(date.utc \div 3600), ":", PadStart2((date.utc \div 60) % 60), ":",
    PadStart2(date.utc % 60)>>

\* ---------------------------------------------------------------------------
\* The instants the model runs at
\* ---------------------------------------------------------------------------
\* Sample instants, in the order the model passes through them: UTC second of
\* the day, the day's solar noon at (0, 0) in seconds of the day, and the
\* sun's declination in ticks.
Ephemeris ==
  << [utc |-> 11160, noon |-> 43645, sunDecl |-> 0],      \* equinox
     [utc |-> 43200, noon |-> 43610, sunDecl |-> 240],    \* +1 degree
     [utc |-> 60,    noon |-> 43560, sunDecl |-> 480],    \* +2 degrees
     [utc |-> 3760,  noon |-> 43480, sunDecl |-> 960],    \* +4 degrees
     [utc |-> 64800, noon |-> 43190, sunDecl |-> 2400],   \* +10 degrees
     [utc |-> 75060, noon |-> 43310, sunDecl |-> 5626],   \* June solstice
     [utc |-> 86280, noon |-> 42750, sunDecl |-> -240],   \* -1 degree
     [utc |-> 21600, noon |-> 42540, sunDecl |-> -960],   \* -4 degrees
     [utc |-> 50000, noon |-> 42216, sunDecl |-> -3600],  \* -15 degrees
     [utc |-> 33600, noon |-> 43090, sunDecl |-> -5626],  \* December solstice
     [utc |-> 0,     noon |-> 43200, sunDecl |-> -479],   \* just inside -2
     [utc |-> 7777,  noon |-> 43700, sunDecl |-> 479],    \* just inside +2
     [utc |-> 10000, noon |-> 43860, sunDecl |-> -480] >> \* -2 degrees

\* How many of the sample instants a run passes through.
NumDates == 12

\* The thresholds buildNightPolygon is called with: those of BANDS and, for
\* the function on its own, two deeper ones.
BandAlts == {BANDS[b].alt : b \in 1..Len(BANDS)}

Thresholds == BandAlts \cup {-60, -90}

\* buildNightPolygon is a pure function of the instant and the threshold: its
\* result for sample instant k and threshold alt, computed once.
PolygonMemo ==
  [k \in 1..NumDates |->
     [alt \in Thresholds |-> buildNightPolygon(Ephemeris[k], alt)]]

NightPolygon(k, alt) == PolygonMemo[k][alt]

\* buildTerminatorLine(date) for sample instant k.
TerminatorLine(k) == TerminatorOf(NightPolygon(k, 0))

\* Instants for getSubsolarPoint on its own: solar noons and UTC times of day
\* over the whole day.
NumUtcSamples == 24

UtcSamples ==
  {0, 1, 43199, 43200, 43201, 86399}
    \cup {(k * 7919) % 86400 : k \in 1..NumUtcSamples}

NoonSamples == {0, 42216, 43200, 43860, 86399}

LonDates ==
  {[utc |-> u, noon |-> n, sunDecl |-> 0] : u \in UtcSamples, n \in NoonSamples}

\* ---------------------------------------------------------------------------
\* State
\* ---------------------------------------------------------------------------
VARIABLES
  loaded,         \* the map's 'load' event has fired and its handler has run
  nowIdx,         \* the instant (index into Ephemeris) new Date() returns
  mapSources,     \* the map's sources: source id -> its GeoJSON data, or Absent
  mapLayers,      \* the ids of the layers added to the map, in order
  addSourceCalls, \* source id -> how many times map.addSource was called with it
  timers,         \* the callbacks registered with setInterval
  utcTime,        \* text content of #utc-time
  subsolarInfo,   \* text content of #subsolar-info
  lastOp,         \* history: the handler or step that ran last
  shownIdx,       \* history: the instant of the last addLayers or updateLayers
  probe           \* a call of a pure function on its own: input and result

vars == <<loaded, nowIdx, mapSources, mapLayers, addSourceCalls, timers,
          utcTime, subsolarInfo, lastOp, shownIdx, probe>>

appVars == <<loaded, nowIdx, mapSources, mapLayers, addSourceCalls, timers,
             utcTime, lastOp, shownIdx>>

\* A source id that was never added: map.getSource returns undefined.
Absent == [type |-> "absent"]

SourceIds == {"night-0", "night-6", "night-12", "night-18",
              "terminator", "subsolar"}

NoText == << >>

NoProbe == [fn |-> "none"]

\* The GeoJSON Point of lines 153-157 and 187-191.
PointFeature(ss) == [type |-> "Point", coordinates |-> <<ss.lon, ss.lat>>]

\* ---------------------------------------------------------------------------
\* addLayers, lines 122-173
\* ---------------------------------------------------------------------------

\* Lines 127-136 for one band: its data after the loop's pass, Absent when
\* the polygon is null and the pass continues before map.addSource.
AddBand(k, b) ==
  IF NightPolygon(k, BANDS[b].alt) = Null THEN Absent
  ELSE NightPolygon(k, BANDS[b].alt)

\* The band index of a band id.
BandIndex(id) == CHOOSE b \in 1..Len(BANDS) : BANDS[b].id = id

IsBand(id) == \E b \in 1..Len(BANDS) : BANDS[b].id = id

\* The sources after addLayers at instant k.
AddLayersSources(k) ==
  [id \in SourceIds |->
     IF IsBand(id) THEN AddBand(k, BandIndex(id))
     ELSE IF id = "terminator" THEN TerminatorLine(k)
     ELSE PointFeature(getSubsolarPoint(Ephemeris[k]))]

\* The layers addLayers adds, in order: one per band with a polygon, then the
\* terminator line, then the subsolar marker.
BandLayer(k, b) ==
  IF NightPolygon(k, BANDS[b].alt) = Null THEN << >> ELSE <<BANDS[b].id>>

AddLayersLayers(k) ==
  BandLayer(k, 1) \o BandLayer(k, 2) \o BandLayer(k, 3) \o BandLayer(k, 4)
  \o <<"terminator", "subsolar">>

addLayers ==
  LET k == nowIdx
  IN  /\ mapSources' = AddLayersSources(k)
      /\ mapLayers' = mapLayers \o AddLayersLayers(k)
      /\ addSourceCalls' =
           [id \in SourceIds |->
              IF AddLayersSources(k)[id] = Absent THEN addSourceCalls[id]
              ELSE addSourceCalls[id] + 1]
      /\ subsolarInfo' = SubsolarInfoText(getSubsolarPoint(Ephemeris[k]))
      /\ shownIdx' = k

\* ---------------------------------------------------------------------------
\* updateLayers, lines 175-194
\* ---------------------------------------------------------------------------

\* map.getSource(id)?.setData(data): nothing when the source was never added.
SetData(sources, id, data) ==
  IF sources[id] = Absent THEN sources[id] ELSE data

\* Lines 179-180 without the setData.
UpdateBand_keepsOld(sources, k, b) == sources[BANDS[b].id]

\* Lines 179-180 for one band: setData only when the polygon is not null.
UpdateBand(sources, k, b) ==
  IF NightPolygon(k, BANDS[b].alt) # Null
  THEN SetData(sources, BANDS[b].id, NightPolygon(k, BANDS[b].alt))
  ELSE sources[BANDS[b].id]

\* updateLayers without lines 183-184: the terminator is not refreshed.
UpdateLayersSources_noTerminator(sources, k) ==
  [id \in SourceIds |->
     IF IsBand(id) THEN UpdateBand(sources, k, BandIndex(id))
     ELSE IF id = "terminator" THEN sources[id]
     ELSE SetData(sources, id, PointFeature(getSubsolarPoint(Ephemeris[k])))]

\* The sources after updateLayers at instant k.
UpdateLayersSources(sources, k) ==
  [id \in SourceIds |->
     IF IsBand(id) THEN UpdateBand(sources, k, BandIndex(id))
     ELSE IF id = "terminator" THEN SetData(sources, id, TerminatorLine(k))
     ELSE SetData(sources, id, PointFeature(getSubsolarPoint(Ephemeris[k])))]

updateLayers ==
  LET k == nowIdx
  IN  /\ mapSources' = UpdateLayersSources(mapSources, k)
      /\ subsolarInfo' = SubsolarInfoText(getSubsolarPoint(Ephemeris[k]))
      /\ shownIdx' = k
      /\ UNCHANGED <<mapLayers, addSourceCalls>>

\* updateClock, lines 218-224.
updateClock == utcTime' = ClockText(Ephemeris[nowIdx])

\* ---------------------------------------------------------------------------
\* The application: the load handler and the two timers, lines 237-244
\* ---------------------------------------------------------------------------
\* The state after the script has run: the map is constructed, nothing is
\* loaded, no timer is registered.
AppInit ==
  /\ loaded = FALSE
  /\ nowIdx = 1
  /\ mapSources = [id \in SourceIds |-> Absent]
  /\ mapLayers = << >>
  /\ addSourceCalls = [id \in SourceIds |-> 0]
  /\ timers = {}
  /\ utcTime = NoText
  /\ subsolarInfo = NoText
  /\ lastOp = "init"
  /\ shownIdx = 0

Init == AppInit /\ probe = NoProbe

\* The intervals the load handler registers, lines 241 and 243.
LoadTimers == {"updateClock", "updateLayers"}

\* map.on('load', ...): the map fires 'load' once.
OnLoad ==
  /\ ~loaded
  /\ loaded' = TRUE
  /\ addLayers
  /\ updateClock
  /\ timers' = timers \cup LoadTimers
  /\ lastOp' = "load"
  /\ UNCHANGED <<nowIdx, probe>>

\* setInterval(updateClock, 1000) fires.
ClockTick ==
  /\ "updateClock" \in timers
  /\ updateClock
  /\ lastOp' = "updateClock"
  /\ UNCHANGED <<loaded, nowIdx, mapSources, mapLayers, addSourceCalls, timers,
                 subsolarInfo, shownIdx, probe>>

\* setInterval(updateLayers, 60_000) fires.
LayersTick ==
  /\ "updateLayers" \in timers
  /\ updateLayers
  /\ lastOp' = "updateLayers"
  /\ UNCHANGED <<loaded, nowIdx, timers, utcTime, probe>>

\* Time passes to the next sample instant.
TimePasses ==
  /\ nowIdx < NumDates
  /\ nowIdx' = nowIdx + 1
  /\ lastOp' = "time"
  /\ UNCHANGED <<loaded, mapSources, mapLayers, addSourceCalls, timers,
                 utcTime, subsolarInfo, shownIdx, probe>>

Next == OnLoad \/ ClockTick \/ LayersTick \/ TimePasses

Spec == Init /\ [][Next]_vars

\* ---------------------------------------------------------------------------
\* The pure functions on their own
\* ---------------------------------------------------------------------------
\* A probe is one call: the function, its input and, once done, its result.
SubsolarProbes ==
  {[fn |-> "getSubsolarPoint", date |-> d, k |-> 0, alt |-> 0,
    done |-> FALSE, ret |-> Null] : d \in LonDates}

PolygonProbes ==
  {[fn |-> "buildNightPolygon", date |-> Ephemeris[i], k |-> i, alt |-> a,
    done |-> FALSE, ret |-> Null] : i \in 1..NumDates, a \in Thresholds}

TerminatorProbes ==
  {[fn |-> "buildTerminatorLine", date |-> Ephemeris[i], k |-> i, alt |-> 0,
    done |-> FALSE, ret |-> Null] : i \in 1..NumDates}

InitFn ==
  /\ AppInit
  /\ probe \in SubsolarProbes \cup PolygonProbes \cup TerminatorProbes

CallSubsolarPoint ==
  /\ probe.fn = "getSubsolarPoint" /\ ~probe.done
  /\ probe' = [probe EXCEPT !.done = TRUE, !.ret = getSubsolarPoint(probe.date)]
  /\ UNCHANGED <<appVars, subsolarInfo>>

CallNightPolygon ==
  /\ probe.fn = "buildNightPolygon" /\ ~probe.done
  /\ probe' = [probe EXCEPT !.done = TRUE,
                            !.ret = NightPolygon(probe.k, probe.alt)]
  /\ UNCHANGED <<appVars, subsolarInfo>>

CallTerminatorLine ==
  /\ probe.fn = "buildTerminatorLine" /\ ~probe.done
  /\ probe' = [probe EXCEPT !.done = TRUE, !.ret = TerminatorLine(probe.k)]
  /\ UNCHANGED <<appVars, subsolarInfo>>

NextFn == CallSubsolarPoint \/ CallNightPolygon \/ CallTerminatorLine

SpecFn == InitFn /\ [][NextFn]_vars

\* ---------------------------------------------------------------------------
\* Properties of the pure functions (checked under SpecFn)
\* ---------------------------------------------------------------------------
ProbeDone(f) == probe.fn = f /\ probe.done

\* The subsolar point and the effective declination of the probe's instant.
ProbeSs == getSubsolarPoint(probe.date)

ProbeDecl == ClampDecl(ProbeSs.decl)

Ring == probe.ret.coordinates

RingReturned == ProbeDone("buildNightPolygon") /\ probe.ret # Null

BandRing == RingReturned /\ probe.alt \in BandAlts

\* The ring's two vertices before the closing repeat are the pole vertices
\* at latitude lat.
PoleVerticesAt(lat) ==
  /\ Ring[Len(Ring) - 2] = <<Deg(180), lat>>
  /\ Ring[Len(Ring) - 1] = <<-Deg(180), lat>>

\* C1, as claimed: for every band threshold the pole vertices have latitude
\* -90 when the effective declination is positive and +90 when it is
\* negative.
C1_PoleByDeclinationSign ==
  BandRing =>
    /\ (ProbeDecl > 0 => PoleVerticesAt(-Deg(90)))
    /\ (ProbeDecl < 0 => PoleVerticesAt(Deg(90)))

\* C1, amended: for every band threshold the pole vertices have latitude -90
\* when the effective declination exceeds the depth of the threshold below
\* the horizon (sin(decl) > -sin(threshold)) and +90 otherwise; so +90 for
\* every negative declination, and -90 for every positive one at threshold 0.
C1_PoleByNightSide ==
  BandRing =>
    /\ (ProbeDecl > Deg(-probe.alt) => PoleVerticesAt(-Deg(90)))
    /\ (ProbeDecl <= Deg(-probe.alt) => PoleVerticesAt(Deg(90)))
    /\ (ProbeDecl < 0 => PoleVerticesAt(Deg(90)))
    /\ (ProbeDecl > 0 /\ probe.alt = 0 => PoleVerticesAt(-Deg(90)))

\* A twilight band with the sun north of the equator but closer to it than
\* the band is deep: the ring closes around the north pole.
C1_Witness ==
  BandRing /\ probe.alt = -6 /\ ProbeDecl > 0 /\ PoleVerticesAt(Deg(90))

\* C2: for threshold 0 the ring is 361 boundary points, one per integer
\* longitude -180..180 in increasing order, then [180, pole], [-180, pole] and
\* the first point again; buildTerminatorLine returns the first 361 points.
C2_ThresholdZeroRing ==
  /\ ProbeDone("buildNightPolygon") /\ probe.alt = 0 =>
       /\ probe.ret # Null
       /\ Len(Ring) = 364
       /\ \A i \in 1..361 : Ring[i][1] = Deg(i - 181)
       /\ \E pole \in {-Deg(90), Deg(90)} : PoleVerticesAt(pole)
       /\ Ring[364] = Ring[1]
  /\ ProbeDone("buildTerminatorLine") =>
       /\ Len(Ring) = 361
       /\ \A i \in 1..361 : Ring[i][1] = Deg(i - 181)
       /\ Ring = SubSeq(NightPolygon(probe.k, 0).coordinates, 1, 361)

\* The terminator line of an instant of zero declination.
C2_Witness ==
  /\ ProbeDone("buildTerminatorLine")
  /\ probe.date.sunDecl = 0
  /\ Len(Ring) = 361

\* C3: the subsolar longitude is at least -180 and less than 180 degrees and
\* differs from (noonH - utcH) * 15 by a multiple of 360 degrees.
C3_LongitudeNormalized ==
  ProbeDone("getSubsolarPoint") =>
    /\ probe.ret.lon >= -Deg(180)
    /\ probe.ret.lon < Deg(180)
    /\ (probe.ret.lon - RawLon(probe.date)) % Deg(360) = 0

\* A raw longitude below -180 degrees has been brought into range.
C3_Witness ==
  /\ ProbeDone("getSubsolarPoint")
  /\ RawLon(probe.date) < -Deg(180)
  /\ probe.ret.lon >= -Deg(180)

\* C4: the effective declination has magnitude at least 2 degrees: the raw
\* one when that has, else +2 degrees for a raw declination >= 0 and -2 degrees
\* for one < 0; the amplitude R is nonzero at every longitude and no latitude
\* of the ring is NaN.
C4_EquinoxGuard ==
  ProbeDone("buildNightPolygon") =>
    /\ Abs(ProbeDecl) >= Deg(2)
    /\ (Abs(ProbeSs.decl) >= Deg(2) => ProbeDecl = ProbeSs.decl)
    /\ (Abs(ProbeSs.decl) < Deg(2) /\ ProbeSs.decl >= 0 => ProbeDecl = Deg(2))
    /\ (Abs(ProbeSs.decl) < Deg(2) /\ ProbeSs.decl < 0 => ProbeDecl = -Deg(2))
    /\ \A lon \in -180..180 : Amplitude(ProbeSs.lon, ProbeDecl, lon) > 0
    /\ (probe.ret # Null => \A i \in 1..Len(Ring) : Ring[i][2] # NaN)

\* A ring built at a raw declination of exactly zero.
C4_Witness == RingReturned /\ ProbeSs.decl = 0 /\ probe.alt = 0

\* The longitudes of -180..180 at which R >= |sin(threshold)|.
Included ==
  {lon \in -180..180 :
     Amplitude(ProbeSs.lon, ProbeDecl, lon) >= Abs(Sin(Deg(probe.alt)))}

\* C5: a longitude contributes a point iff R >= |sin(threshold)| there; the
\* result is null iff no longitude does; otherwise the boundary points are
\* the contributing longitudes in increasing order, followed by the two pole
\* vertices, and the last point equals the first.
C5_SkipAndNull ==
  ProbeDone("buildNightPolygon") =>
    /\ (probe.ret = Null) <=> (Included = {})
    /\ probe.ret # Null =>
         /\ Len(Ring) = Cardinality(Included) + 3
         /\ {Ring[i][1] : i \in 1..(Len(Ring) - 3)} = {Deg(lon) : lon \in Included}
         /\ \A i \in 1..(Len(Ring) - 4) : Ring[i][1] < Ring[i + 1][1]
         /\ Ring[Len(Ring)] = Ring[1]

\* A ring with some longitudes skipped and others not.
C5_Witness == RingReturned /\ Len(Ring) < 364 /\ Len(Ring) > 4

\* The result null: every longitude skipped.
C5_NullReached == ProbeDone("buildNightPolygon") /\ probe.ret = Null

\* 89.9 degrees.
Lat899 == Deg(899) \div 10

\* C8: every solved vertex of a ring, and the closing repeat of the first,
\* has latitude in [-89.9, 89.9]; latitude +90 or -90 occurs only at the two
\* pole vertices at longitudes +180 and -180; every point of the terminator
\* line has latitude in [-89.9, 89.9].
C8_LatitudeClamp ==
  /\ RingReturned =>
       /\ \A i \in (1..(Len(Ring) - 3)) \cup {Len(Ring)} :
            Ring[i][2] >= -Lat899 /\ Ring[i][2] <= Lat899
       /\ \E pole \in {-Deg(90), Deg(90)} : PoleVerticesAt(pole)
  /\ ProbeDone("buildTerminatorLine") =>
       \A i \in 1..Len(Ring) : Ring[i][2] >= -Lat899 /\ Ring[i][2] <= Lat899

\* A ring with a solved vertex held at the clamp.
C8_Witness ==
  /\ RingReturned
  /\ \E i \in 1..(Len(Ring) - 3) : Abs(Ring[i][2]) = Lat899

\* ---------------------------------------------------------------------------
\* Properties of the application (checked under Spec)
\* ---------------------------------------------------------------------------
\* Source id holds polygon poly; for no polygon, it holds no ring at all.
BandShows(id, poly) ==
  IF poly = Null THEN mapSources[id].type # "Polygon"
  ELSE mapSources[id] = poly

\* Every configured band has a boundary at every sample instant.
BandsAlwaysHaveBoundary ==
  \A b \in 1..Len(BANDS) : NightPolygon(nowIdx, BANDS[b].alt) # Null

\* C6: after an updateLayers tick every band's source holds the polygon of
\* that tick's instant; at all times after load every band's source holds the
\* polygon of the latest addLayers or updateLayers, never an earlier one.
C6_LastWriteWins ==
  /\ lastOp = "updateLayers" =>
       \A b \in 1..Len(BANDS) :
         BandShows(BANDS[b].id, NightPolygon(nowIdx, BANDS[b].alt))
  /\ shownIdx # 0 =>
       \A b \in 1..Len(BANDS) :
         BandShows(BANDS[b].id, NightPolygon(shownIdx, BANDS[b].alt))

\* The map loaded at the first instant and updateLayers ran at the second:
\* the source no longer holds the first instant's polygon.
C6_Witness ==
  /\ lastOp = "updateLayers"
  /\ nowIdx = 2
  /\ utcTime = ClockText(Ephemeris[1])
  /\ mapSources["night-6"] # NightPolygon(1, -6)

\* The characters of a number printed with exactly one decimal place.
OneDecimal(cs) ==
  /\ Len(cs) >= 3
  /\ cs[Len(cs) - 1] = "."
  /\ \A i \in (1..(Len(cs) - 2)) \cup {Len(cs)} : \E d \in 0..9 : cs[i] = DigitChar(d)

\* C9: the displayed text shows the latitude and longitude magnitudes with
\* exactly one decimal place each, followed by N for latitude >= 0 else S and
\* E for longitude >= 0 else W.
C9_OneDecimalPlace ==
  subsolarInfo # NoText =>
    /\ OneDecimal(subsolarInfo[2])
    /\ OneDecimal(subsolarInfo[6])
    /\ subsolarInfo[4] =
         (IF getSubsolarPoint(Ephemeris[shownIdx]).lat >= 0 THEN "N" ELSE "S")
    /\ subsolarInfo[8] =
         (IF getSubsolarPoint(Ephemeris[shownIdx]).lon >= 0 THEN "E" ELSE "W")

\* The sources and the marker all come from sample instant k, and the
\* terminator is the night-0 ring without its last three points.
GeometryOfInstant(k) ==
  /\ mapSources["night-0"] = NightPolygon(k, 0)
  /\ mapSources["terminator"].coordinates =
       SubSeq(mapSources["night-0"].coordinates, 1,
              Len(mapSources["night-0"].coordinates) - 3)
  /\ mapSources["terminator"].coordinates = TerminatorLine(k).coordinates
  /\ mapSources["subsolar"] = PointFeature(getSubsolarPoint(Ephemeris[k]))

C10_State ==
  /\ \A id \in SourceIds : addSourceCalls[id] <= 1
  /\ addSourceCalls["terminator"] = (IF loaded THEN 1 ELSE 0)
  /\ lastOp \in {"load", "updateLayers"} => shownIdx = nowIdx
  /\ shownIdx # 0 => GeometryOfInstant(shownIdx)

C10_Step ==
  /\ lastOp' = "updateLayers" => loaded /\ addSourceCalls["terminator"] = 1
  /\ lastOp' = "updateClock" =>
       mapSources' = mapSources /\ mapLayers' = mapLayers

\* C10: addLayers runs exactly once and before any updateLayers, each source
\* is added at most once, a clock tick leaves sources and layers unchanged,
\* and after addLayers and every updateLayers the night-0 ring, the terminator
\* and the marker come from one instant, the terminator being the ring
\* without its last three points.
C10_LoadOnceSameInstant == []C10_State /\ [][C10_Step]_vars

\* updateLayers has run at the third instant, after a load and a clock tick
\* at earlier ones.
C10_Witness ==
  /\ lastOp = "updateLayers"
  /\ nowIdx = 3
  /\ utcTime = ClockText(Ephemeris[2])
  /\ addSourceCalls["night-0"] = 1

=============================================================================
